---- MODULE Spec2Model ----
(***************************************************************************)
(* Model of scripts/parse_config.py: one run of the command-line utility   *)
(* that loads a YAML configuration file and prints the value of one of     *)
(* four known keys.                                                        *)
(*                                                                         *)
(* Text is modelled as a sequence of one-character strings, so that        *)
(* splitting, joining, rendering and line structure are computed, not      *)
(* assumed.  A parsed YAML value is a record [t |-> tag, v |-> payload].   *)
(* The YAML parser itself (yaml.safe_load) is an external library: a file  *)
(* is given by the value the parser yields for it, or by the way loading   *)
(* it fails.                                                               *)
(***************************************************************************)
EXTENDS Integers, Sequences, FiniteSets, TLC

VARIABLES
    argv,        \* sys.argv, program name included
    file,        \* the state of the file named by argv[2]
    pc,          \* position of the run: "start", "load", "resolve", "exited"
    openCalled,  \* open(config_file) has been called
    config,      \* the value load_config returned (NotLoaded before that)
    stdout,      \* characters written to standard output
    printed,     \* number of print calls that wrote to standard output
    stderr,      \* the writes made to the error stream, one entry per write
    exitCode     \* process exit status (-1 while running)

vars == <<argv, file, pc, openCalled, config, stdout, printed, stderr, exitCode>>

----------------------------------------------------------------------------
(* Bounds of the enumerated inputs *)

MaxStrLen == 2
MaxListLen == 2

----------------------------------------------------------------------------
(* Parsed YAML values *)

Null == [t |-> "null", v |-> 0]
Bool(b) == [t |-> "bool", v |-> b]
Num(n) == [t |-> "int", v |-> n]
Str(s) == [t |-> "str", v |-> s]
List(xs) == [t |-> "list", v |-> xs]
Map(es) == [t |-> "map", v |-> es]
Entry(k, x) == [k |-> k, v |-> x]

NotLoaded == [t |-> "unset", v |-> 0]

Alphabet == {"a", ",", " ", "\n"}

SeqsUpTo(S, n) == UNION {[1..k -> S] : k \in 0..n}

Strings == SeqsUpTo(Alphabet, MaxStrLen)

ListItems == {Str(<<>>), Str(<<"a">>), Str(<<",">>), Str(<<"\n">>), Num(1), Null}

Scalars == {Null, Bool(TRUE), Bool(FALSE), Num(0), Num(42)} \cup {Str(s) : s \in Strings}

Lists == {List(xs) : xs \in SeqsUpTo(ListItems, MaxListLen)}

NestedMaps == {Map(<<>>), Map(<<Entry("k", Num(1))>>)}

Values == Scalars \cup Lists \cup NestedMaps

KnownKeys == {"enabledEnvironments", "notificationEmail", "slackWebhook", "dryRun"}

OtherEntry == Entry("other", Str(<<"a">>))

MappingDocs ==
    {Map(<<>>), Map(<<OtherEntry>>)}
    \cup {Map(<<Entry(k, x)>>) : k \in KnownKeys, x \in Values}
    \cup {Map(<<Entry(k, x), OtherEntry>>) : k \in KnownKeys, x \in Values}
    \cup {Map(<<OtherEntry, Entry(k, x)>>) : k \in KnownKeys, x \in Values}

\* What yaml.safe_load can yield for a well-formed file: a mapping, or a
\* top-level scalar or sequence (Null for an empty file).
ParsedDocs == MappingDocs \cup Scalars \cup Lists

Files ==
    {[state |-> "missing", doc |-> Null],
     [state |-> "unreadable", doc |-> Null],
     [state |-> "malformed", doc |-> Null]}
    \cup {[state |-> "ok", doc |-> d] : d \in ParsedDocs}

Prog == "parse_config.py"
Path == "cleanup-config.yaml"
KeyArgs == KnownKeys \cup {"bogusKey", "dryrun", ""}

ArgLists ==
    {<<Prog>>, <<Prog, Path>>}
    \cup {<<Prog, Path, k>> : k \in KeyArgs}
    \cup {<<Prog, Path, k, "extra">> : k \in KeyArgs}

----------------------------------------------------------------------------
(* Python built-ins used by the script *)

\* bool(x)
Truthy(x) ==
    CASE x.t = "null" -> FALSE
      [] x.t = "bool" -> x.v
      [] x.t = "int"  -> x.v # 0
      [] OTHER        -> Len(x.v) > 0

\* s.split(sep) for a one-character separator
RECURSIVE SplitFrom(_, _, _, _)
SplitFrom(s, sep, i, cur) ==
    IF i > Len(s) THEN <<cur>>
    ELSE IF s[i] = sep THEN <<cur>> \o SplitFrom(s, sep, i + 1, <<>>)
    ELSE SplitFrom(s, sep, i + 1, Append(cur, s[i]))

Split(s, sep) == SplitFrom(s, sep, 1, <<>>)

\* sep.join(pieces), pieces being texts
RECURSIVE Join(_, _)
Join(sep, pieces) ==
    IF Len(pieces) = 0 THEN <<>>
    ELSE IF Len(pieces) = 1 THEN pieces[1]
    ELSE pieces[1] \o sep \o Join(sep, Tail(pieces))

Digits == <<"0", "1", "2", "3", "4", "5", "6", "7", "8", "9">>

Digit(d) == <<Digits[d + 1]>>

RECURSIVE IntStr(_)
IntStr(n) ==
    IF n < 0 THEN <<"-">> \o IntStr(0 - n)
    ELSE IF n < 10 THEN Digit(n)
    ELSE IntStr(n \div 10) \o Digit(n % 10)

\* the escaping repr() applies inside a quoted string
RECURSIVE Escape(_)
Escape(s) ==
    IF Len(s) = 0 THEN <<>>
    ELSE (IF s[1] = "\n" THEN <<"\\", "n">> ELSE <<s[1]>>) \o Escape(Tail(s))

\* the text of a mapping key (a key name is kept as one symbol)
KeyText(k) == <<k>>

RECURSIVE PyRepr(_)
RECURSIVE ReprItems(_)
RECURSIVE ReprEntries(_)

ReprItems(xs) ==
    IF Len(xs) = 0 THEN <<>>
    ELSE IF Len(xs) = 1 THEN PyRepr(xs[1])
    ELSE PyRepr(xs[1]) \o <<",", " ">> \o ReprItems(Tail(xs))

ReprEntries(es) ==
    IF Len(es) = 0 THEN <<>>
    ELSE LET one == <<"'">> \o KeyText(es[1].k) \o <<"'", ":", " ">> \o PyRepr(es[1].v)
         IN IF Len(es) = 1 THEN one ELSE one \o <<",", " ">> \o ReprEntries(Tail(es))

\* repr(x)
PyRepr(x) ==
    CASE x.t = "null" -> <<"N", "o", "n", "e">>
      [] x.t = "bool" -> IF x.v THEN <<"T", "r", "u", "e">> ELSE <<"F", "a", "l", "s", "e">>
      [] x.t = "int"  -> IntStr(x.v)
      [] x.t = "str"  -> <<"'">> \o Escape(x.v) \o <<"'">>
      [] x.t = "list" -> <<"[">> \o ReprItems(x.v) \o <<"]">>
      [] x.t = "map"  -> <<"{">> \o ReprEntries(x.v) \o <<"}">>

\* str(x), the text print(x) writes before the newline
PyStr(x) == IF x.t = "str" THEN x.v ELSE PyRepr(x)

\* dict.get(key, default)
HasKey(d, key) == \E i \in 1..Len(d.v) : d.v[i].k = key

DictGet(d, key, default) ==
    IF HasKey(d, key)
    THEN d.v[CHOOSE i \in 1..Len(d.v) : d.v[i].k = key].v
    ELSE default

----------------------------------------------------------------------------
(* The script *)

UsageText == <<"Usage: parse_config.py <config_file> <key>">>

\* str(e) for the exception open() or yaml.safe_load raises on the file
ExcText(state) ==
    CASE state = "missing"    -> "[Errno 2] No such file or directory"
      [] state = "unreadable" -> "[Errno 13] Permission denied"
      [] state = "malformed"  -> "yaml.YAMLError"

LoadErrorText(state) == <<"Error loading config: ", ExcText(state)>>

\* what the interpreter writes for an exception nothing catches
TracebackText(exc) == <<"Traceback (most recent call last):", exc>>

DefaultEnvs == <<"d", "e", "v", ",", "s", "i", "t">>

TrueText == <<"t", "r", "u", "e">>
FalseText == <<"f", "a", "l", "s", "e">>

Init ==
    /\ argv \in ArgLists
    /\ file \in Files
    /\ pc = "start"
    /\ openCalled = FALSE
    /\ config = NotLoaded
    /\ stdout = <<>>
    /\ printed = 0
    /\ stderr = <<>>
    /\ exitCode = -1

\* Mutation of BadArgCount: only too few arguments are rejected.
BadArgCount_TooFewOnly == Len(argv) < 3

\* len(sys.argv) != 3
BadArgCount == Len(argv) # 3

\* Mutation of PrintAndReturn: the value is written without the newline.
PrintAndReturn_NoNewline(text) ==
    /\ stdout' = stdout \o text
    /\ printed' = printed + 1
    /\ stderr' = stderr
    /\ exitCode' = 0
    /\ pc' = "exited"

\* print(text) on standard output, after which main returns and the
\* interpreter exits with status 0
PrintAndReturn(text) ==
    /\ stdout' = stdout \o text \o <<"\n">>
    /\ printed' = printed + 1
    /\ stderr' = stderr
    /\ exitCode' = 0
    /\ pc' = "exited"

\* an exception no handler catches: traceback on the error stream, status 1
Uncaught(exc) ==
    /\ stderr' = Append(stderr, TracebackText(exc))
    /\ exitCode' = 1
    /\ pc' = "exited"
    /\ UNCHANGED <<stdout, printed>>

UsageError ==
    /\ pc = "start"
    /\ BadArgCount
    /\ stderr' = Append(stderr, UsageText)
    /\ exitCode' = 1
    /\ pc' = "exited"
    /\ UNCHANGED <<argv, file, openCalled, config, stdout, printed>>

ParseArgs ==
    /\ pc = "start"
    /\ ~BadArgCount
    /\ pc' = "load"
    /\ UNCHANGED <<argv, file, openCalled, config, stdout, printed, stderr, exitCode>>

\* Mutation of OrEmpty: the parser's result is returned without "or {}".
OrEmpty_NoCoercion(doc) == doc

\* yaml.safe_load(f) or {}
OrEmpty(doc) == IF Truthy(doc) THEN doc ELSE Map(<<>>)

\* Mutation of LoadFailureResult: the except branch returns None.
LoadFailureResult_None == Null

\* the value the except branch returns
LoadFailureResult == Map(<<>>)

LoadConfig ==
    /\ pc = "load"
    /\ openCalled' = TRUE
    /\ IF file.state = "ok"
       THEN /\ config' = OrEmpty(file.doc)
            /\ stderr' = stderr
       ELSE /\ config' = LoadFailureResult
            /\ stderr' = Append(stderr, LoadErrorText(file.state))
    /\ pc' = "resolve"
    /\ UNCHANGED <<argv, file, stdout, printed, exitCode>>

key == argv[3]

AllStr(xs) == \A i \in 1..Len(xs) : xs[i].t = "str"

\* Mutation of SplitRejoin: empty pieces are dropped before rejoining.
SplitRejoin_DropEmpty(s) ==
    Join(<<",">>, SelectSeq(Split(s, ","), LAMBDA piece : Len(piece) > 0))

\* ','.join(envs.split(','))
SplitRejoin(s) == Join(<<",">>, Split(s, ","))

\* ','.join(envs), every element of envs being a str
JoinList(xs) == Join(<<",">>, [i \in 1..Len(xs) |-> xs[i].v])

ResolveEnabledEnvironments ==
    /\ pc = "resolve"
    /\ key = "enabledEnvironments"
    /\ IF config.t # "map"
       THEN Uncaught("AttributeError")
       ELSE LET envs == DictGet(config, "enabledEnvironments", Str(DefaultEnvs))
            IN  IF envs.t = "str"
                THEN PrintAndReturn(SplitRejoin(envs.v))
                ELSE IF envs.t = "list"
                THEN IF AllStr(envs.v)
                     THEN PrintAndReturn(JoinList(envs.v))
                     ELSE Uncaught("TypeError")
                ELSE PrintAndReturn(DefaultEnvs)
    /\ UNCHANGED <<argv, file, openCalled, config>>

ResolveNotificationEmail ==
    /\ pc = "resolve"
    /\ key = "notificationEmail"
    /\ IF config.t # "map"
       THEN Uncaught("AttributeError")
       ELSE PrintAndReturn(PyStr(DictGet(config, "notificationEmail", Str(<<>>))))
    /\ UNCHANGED <<argv, file, openCalled, config>>

ResolveSlackWebhook ==
    /\ pc = "resolve"
    /\ key = "slackWebhook"
    /\ IF config.t # "map"
       THEN Uncaught("AttributeError")
       ELSE PrintAndReturn(PyStr(DictGet(config, "slackWebhook", Str(<<>>))))
    /\ UNCHANGED <<argv, file, openCalled, config>>

\* 'true' if dry_run else 'false'
DryRunText(dry_run) == IF Truthy(dry_run) THEN TrueText ELSE FalseText

ResolveDryRun ==
    /\ pc = "resolve"
    /\ key = "dryRun"
    /\ IF config.t # "map"
       THEN Uncaught("AttributeError")
       ELSE PrintAndReturn(DryRunText(DictGet(config, "dryRun", Bool(FALSE))))
    /\ UNCHANGED <<argv, file, openCalled, config>>

\* Mutation of UnknownKey: the else branch forgets sys.exit(1), so main
\* returns and the interpreter exits with status 0.
UnknownKey_NoExit ==
    /\ pc = "resolve"
    /\ key \notin KnownKeys
    /\ stderr' = Append(stderr, <<>>)
    /\ exitCode' = 0
    /\ pc' = "exited"
    /\ UNCHANGED <<argv, file, openCalled, config, stdout, printed>>

UnknownKey ==
    /\ pc = "resolve"
    /\ key \notin KnownKeys
    /\ stderr' = Append(stderr, <<>>)
    /\ exitCode' = 1
    /\ pc' = "exited"
    /\ UNCHANGED <<argv, file, openCalled, config, stdout, printed>>

Next ==
    \/ UsageError
    \/ ParseArgs
    \/ LoadConfig
    \/ ResolveEnabledEnvironments
    \/ ResolveNotificationEmail
    \/ ResolveSlackWebhook
    \/ ResolveDryRun
    \/ UnknownKey

Spec == Init /\ [][Next]_vars

----------------------------------------------------------------------------
(* Vocabulary of the properties *)

Exited == pc = "exited"

TwoArgs == Len(argv) = 3

\* the text one print call leaves on standard output
Line(text) == text \o <<"\n">>

\* the defaults the specification documents, key by key
DocumentedDefault(k) ==
    CASE k = "enabledEnvironments" -> <<"d", "e", "v", ",", "s", "i", "t">>
      [] k = "notificationEmail"   -> <<>>
      [] k = "slackWebhook"        -> <<>>
      [] k = "dryRun"              -> <<"f", "a", "l", "s", "e">>

\* the raw value of the requested key in the loaded mapping
Present == HasKey(config, key)
Raw == DictGet(config, key, Null)

Whitespace == {" ", "\n"}

HasNewline(text) == \E i \in 1..Len(text) : text[i] = "\n"

\* no leading or trailing comma or whitespace
Clean(text) ==
    Len(text) > 0
    => /\ text[1] \notin Whitespace \cup {","}
       /\ text[Len(text)] \notin Whitespace \cup {","}

HasUncaught(exc) == \E i \in 1..Len(stderr) : stderr[i] = TracebackText(exc)

----------------------------------------------------------------------------
(* C1: when the parsed document has no keys at all (an empty mapping, or   *)
(* an empty or null YAML file), a run with exactly two arguments naming a  *)
(* known key prints that key's documented default and exits 0.             *)
C1_EmptyDocumentDefaults ==
    (/\ Exited
     /\ TwoArgs
     /\ key \in KnownKeys
     /\ file.state = "ok"
     /\ file.doc \in {Null, Map(<<>>)})
    => /\ stdout = Line(DocumentedDefault(key))
       /\ exitCode = 0

C1_Witness ==
    /\ Exited
    /\ TwoArgs
    /\ key = "enabledEnvironments"
    /\ file.state = "ok"
    /\ file.doc = Null
    /\ stdout = <<"d", "e", "v", ",", "s", "i", "t", "\n">>
    /\ exitCode = 0

(* C2: a load failure (file missing, unreadable or malformed) is never     *)
(* fatal: the run writes one diagnostic to the error stream, goes on to    *)
(* key resolution, and for every known key its standard output and exit    *)
(* code are those of a run on an empty document (the default, exit 0).     *)
C2_LoadFailureNotFatal ==
    (file.state # "ok" /\ TwoArgs /\ pc \in {"resolve", "exited"})
    => /\ Len(stderr) >= 1
       /\ stderr[1] = LoadErrorText(file.state)
       /\ pc = "resolve" => exitCode = -1 /\ stdout = <<>>
       /\ (Exited /\ key \in KnownKeys)
          => /\ stdout = Line(DocumentedDefault(key))
             /\ exitCode = 0
             /\ Len(stderr) = 1

C2_Witness ==
    /\ Exited
    /\ TwoArgs
    /\ file.state = "missing"
    /\ key = "dryRun"
    /\ stderr = <<LoadErrorText("missing")>>
    /\ stdout = <<"f", "a", "l", "s", "e", "\n">>
    /\ exitCode = 0

(* C3: for every key argument that is not one of the four known keys, and  *)
(* for every document and every load outcome, the run exits with code 1,   *)
(* writes nothing to standard output and writes an empty line to the       *)
(* error stream.                                                           *)
C3_UnknownKeyExits1 ==
    (Exited /\ TwoArgs /\ key \notin KnownKeys)
    => /\ exitCode = 1
       /\ stdout = <<>>
       /\ printed = 0
       /\ Len(stderr) >= 1
       /\ stderr[Len(stderr)] = <<>>

C3_Witness ==
    /\ Exited
    /\ TwoArgs
    /\ key = "bogusKey"
    /\ file.state = "ok"
    /\ file.doc.t = "list"
    /\ Len(file.doc.v) > 0
    /\ exitCode = 1
    /\ stderr = << <<>> >>

(* C4: whenever the number of positional arguments is not exactly two, the *)
(* run exits with code 1, writes the usage message to the error stream and *)
(* nothing to standard output, and never opens the config file or resolves *)
(* a key.                                                                  *)
C4_UsageError ==
    (Len(argv) # 3)
    => /\ pc \in {"start", "exited"}
       /\ ~openCalled
       /\ config = NotLoaded
       /\ stdout = <<>>
       /\ printed = 0
       /\ Exited => exitCode = 1 /\ stderr = <<UsageText>>

C4_Witness ==
    /\ Exited
    /\ Len(argv) = 4
    /\ exitCode = 1
    /\ stderr = <<UsageText>>
    /\ ~openCalled

(* C5: for key enabledEnvironments the run prints a value fixed by the     *)
(* shape of the raw value and exits 0: absent -> "dev,sit"; a string ->    *)
(* that string unchanged; a sequence of strings -> its elements joined     *)
(* with commas; any other shape (null, number, boolean, mapping, or a      *)
(* sequence with non-string elements) -> "dev,sit".                        *)
C5_EnabledEnvironmentsByShape ==
    (Exited /\ TwoArgs /\ key = "enabledEnvironments" /\ config.t = "map")
    => /\ exitCode = 0
       /\ stdout = Line(
            IF ~Present THEN DocumentedDefault(key)
            ELSE IF Raw.t = "str" THEN Raw.v
            ELSE IF Raw.t = "list" /\ AllStr(Raw.v)
                 THEN Join(<<",">>, [i \in 1..Len(Raw.v) |-> Raw.v[i].v])
            ELSE DocumentedDefault(key))

(* C6: for key dryRun, for every document, standard output is exactly the  *)
(* lowercase token "true" or "false": "true" when the raw value is boolean *)
(* true, "false" when it is boolean false or the key is absent.            *)
C6_DryRunLowercaseToken ==
    (Exited /\ TwoArgs /\ key = "dryRun")
    => /\ stdout \in {<<"t", "r", "u", "e", "\n">>, <<"f", "a", "l", "s", "e", "\n">>}
       /\ (file.state = "ok" /\ file.doc.t = "map")
          => /\ (Present /\ Raw = Bool(TRUE)) => stdout = <<"t", "r", "u", "e", "\n">>
             /\ (~Present \/ Raw = Bool(FALSE)) => stdout = <<"f", "a", "l", "s", "e", "\n">>

\* C6 restricted to runs in which load_config returned a mapping.
C6_DryRunOnMappings ==
    (Exited /\ TwoArgs /\ key = "dryRun" /\ config.t = "map")
    => /\ stdout \in {<<"t", "r", "u", "e", "\n">>, <<"f", "a", "l", "s", "e", "\n">>}
       /\ exitCode = 0
       /\ (Present /\ Raw = Bool(TRUE)) => stdout = <<"t", "r", "u", "e", "\n">>
       /\ (~Present \/ Raw = Bool(FALSE)) => stdout = <<"f", "a", "l", "s", "e", "\n">>

(* C7: load_config always returns a key/value mapping, whatever the file   *)
(* state and content, so the key lookup that follows never fails with an   *)
(* uncaught error for any of the four known keys.                          *)
C7_LoadReturnsMapping ==
    /\ config # NotLoaded => config.t = "map"
    /\ (Exited /\ TwoArgs /\ key \in KnownKeys) => ~HasUncaught("AttributeError")

(* C8: in every run, standard output at exit is either exactly one         *)
(* newline-terminated line (and the exit code is 0) or nothing at all (on  *)
(* any error); never more than one line, never a partial fragment.         *)
C8_OneLineOrNothing ==
    /\ ~Exited => stdout = <<>>
    /\ Exited =>
          \/ /\ exitCode = 0
             /\ Len(stdout) >= 1
             /\ \A i \in 1..Len(stdout) : (stdout[i] = "\n") <=> (i = Len(stdout))
          \/ /\ exitCode # 0
             /\ stdout = <<>>

\* C8 as amended: standard output at exit is either what one print call
\* wrote, newline-terminated (and the exit code is 0), or nothing at all
\* (and the exit code is not 0); it holds more than one line only when the
\* raw string printed (or, for enabledEnvironments, a string of the raw
\* sequence) itself contains a newline.
C8_OnePrintOrNothing ==
    /\ ~Exited => stdout = <<>> /\ printed = 0
    /\ Exited =>
          \/ /\ exitCode = 0
             /\ printed = 1
             /\ Len(stdout) >= 1
             /\ stdout[Len(stdout)] = "\n"
             /\ (\E i \in 1..(Len(stdout) - 1) : stdout[i] = "\n")
                => /\ config.t = "map"
                   /\ Present
                   /\ \/ Raw.t = "str" /\ HasNewline(Raw.v)
                      \/ /\ key = "enabledEnvironments"
                         /\ Raw.t = "list"
                         /\ \E j \in 1..Len(Raw.v) :
                               Raw.v[j].t = "str" /\ HasNewline(Raw.v[j].v)
          \/ /\ exitCode # 0
             /\ printed = 0
             /\ stdout = <<>>

C8_Witness ==
    /\ Exited
    /\ TwoArgs
    /\ key = "notificationEmail"
    /\ config.t = "map"
    /\ Present
    /\ Raw = Str(<<"a", "\n">>)
    /\ stdout = <<"a", "\n", "\n">>
    /\ exitCode = 0

C10_StringOrEmptyDefault ==
    (Exited /\ TwoArgs /\ key \in {"notificationEmail", "slackWebhook"} /\ config.t = "map")
    => /\ exitCode = 0
       /\ stdout = Line(IF Present /\ Raw.t = "str" THEN Raw.v ELSE <<>>)

====
